---- MODULE Spec2Model ----
(***************************************************************************)
(* Model of app.py: the daily regime engine (_get_daily_regime) and the    *)
(* live signal generator (get_live_signal).                                *)
(*                                                                         *)
(* Numbers.  p-values are integers in units of 1e-6 (One = 1.0).  Prices   *)
(* are integers; a table cell is a record [k, v] whose kind k is "num" or  *)
(* "nan" (a missing observation).  A log return is the record [k, n, d]:   *)
(* kind "num" stands for the finite value ln(n/d), the other kinds are the *)
(* float results nan, inf and ninf (-inf).  The intraday change            *)
(* now/prev - 1 is kept as the exact fraction (now - prev)/prev.           *)
(*                                                                         *)
(* External calls (yf.download, grangercausalitytests) are inputs: every   *)
(* call nondeterministically raises or returns one value of a bounded set. *)
(***************************************************************************)
EXTENDS Integers, Sequences, FiniteSets, TLC

(* ------------------------------ constants ------------------------------ *)

\* width of the rolling window: range(90, ...) and iloc[i-90:i]
W == 90

\* 1.0 in units of 1e-6
One == 1000000

\* regime threshold 0.10 in units of 1e-6
RegimeThreshold == 100000

\* signal threshold 0.0015 as the fraction ThrNum / ThrDen
ThrNum == 15

ThrDen == 10000

(* ------------------------------- bounds -------------------------------- *)

\* daily tables have up to W + 1 + MaxExtra rows
MaxExtra == 3

\* rows of an intraday table
MaxIntraRows == 3

\* rows of the 2-day fallback table
MaxFbRows == 2

(* ------------------------------ float cells ---------------------------- *)

Num(x) == [k |-> "num", v |-> x]

NaNCell == [k |-> "nan", v |-> 0]

NaNRet == [k |-> "nan", n |-> 0, d |-> 0]

\* np.log(a / b) on two price cells, with IEEE results for the edge cases
LogRatio(a, b) ==
  IF a.k = "nan" \/ b.k = "nan" THEN NaNRet
  ELSE IF b.v = 0
       THEN (IF a.v > 0 THEN [k |-> "inf", n |-> 0, d |-> 0]   \* log(+inf)
             ELSE NaNRet)                                       \* 0/0, log(-inf)
  ELSE IF a.v = 0 THEN [k |-> "ninf", n |-> 0, d |-> 0]         \* log(0)
  ELSE IF (a.v < 0) # (b.v < 0) THEN NaNRet                     \* log(negative)
  ELSE [k |-> "num", n |-> a.v, d |-> b.v]

(* --------------------------- daily price table ------------------------- *)

\* price of a clean row r
BtcBase(r) == 40000 + r

TslaBase(r) == 200 + r

CleanRow(r) == [date |-> r, btc |-> Num(BtcBase(r)), tsla |-> Num(TslaBase(r))]

DefectCells == {NaNCell, Num(0), Num(0 - 5)}

\* a table of n rows, clean except for the cell c in column col of row at
DefectTable(n, at, col, c) ==
  [r \in 1..n |->
     IF r # at THEN CleanRow(r)
     ELSE IF col = "btc" THEN [CleanRow(r) EXCEPT !.btc = c]
     ELSE [CleanRow(r) EXCEPT !.tsla = c]]

RowCounts == {0, 1, 2} \cup (W .. (W + 1 + MaxExtra))

\* rows that may carry the defect: the first, one in the middle, the last
DefectAt == {1, 50, W + 1 + MaxExtra}

DailyTables ==
  {[r \in 1..n |-> CleanRow(r)] : n \in RowCounts}
  \cup {DefectTable(W + 1 + MaxExtra, at, col, c) :
          at \in DefectAt, col \in {"btc", "tsla"}, c \in DefectCells}
  \cup {DefectTable(n, n, "tsla", NaNCell) : n \in RowCounts \ {0}}

\* outcomes of yf.download(...)['Close'] for the daily history
DailyOutcomes ==
  {[k |-> "raise", cols |-> 0, rows |-> <<>>]}
  \cup {[k |-> "table", cols |-> 1, rows |-> <<>>]}
  \cup {[k |-> "table", cols |-> 2, rows |-> t] : t \in DailyTables}


\* number of rows with both prices present
RECURSIVE AlignedCount(_)
AlignedCount(rows) ==
  IF rows = <<>> THEN 0
  ELSE AlignedCount(Tail(rows))
       + (IF Head(rows).btc.k # "nan" /\ Head(rows).tsla.k # "nan" THEN 1 ELSE 0)

HasNonPositive(rows) ==
  \E r \in 1..Len(rows) :
     \/ rows[r].btc.k = "num" /\ rows[r].btc.v <= 0
     \/ rows[r].tsla.k = "num" /\ rows[r].tsla.v <= 0

(* ----------------------------- return series --------------------------- *)

\* row t of np.log(daily / daily.shift(1)): the ratio is taken against the
\* previous row of the table as fetched; row 1 has no previous row
RawReturn(rows, t) ==
  IF t = 1 THEN [date |-> rows[t].date, btc |-> NaNRet, tsla |-> NaNRet]
  ELSE [date |-> rows[t].date,
        btc  |-> LogRatio(rows[t].btc, rows[t - 1].btc),
        tsla |-> LogRatio(rows[t].tsla, rows[t - 1].tsla)]

NotNaRow(r) == r.btc.k # "nan" /\ r.tsla.k # "nan"

\* .dropna(): rows holding a nan are removed; inf and -inf are kept
Returns(rows) ==
  SelectSeq([t \in 1..Len(rows) |-> RawReturn(rows, t)], NotNaRow)

(* ------------------------------ rolling scan --------------------------- *)

\* outcome of grangercausalitytests on one window: Raised, or the p-value
\* res[2][0]['ssr_ftest'][1]
Raised == 0 - 1

PGrid == {0, 99996, RegimeThreshold, One}

GrangerOutcomes == {Raised} \cup PGrid

\* variant: the window slides one too far and takes in observation i
Subset_incl(i) == [lo |-> i - W + 1, hi |-> i + 1]

\* returns.iloc[i-90:i], as the half-open range [lo, hi) of 0-based indices
Subset(i) == [lo |-> i - W, hi |-> i]

\* variant: a failing window is recorded as 0.0
ScoreOf_zero(out) == IF out = Raised THEN 0 ELSE out

\* pvals.append(...) in the try and in the except branch
ScoreOf(out) == IF out = Raised THEN One ELSE out

\* round(latest_p, 5): nearest multiple of 1e-5, ties to even
Round5(p) ==
  LET q == p \div 10
      r == p % 10
  IN  IF r < 5 THEN 10 * q
      ELSE IF r > 5 THEN 10 * (q + 1)
      ELSE IF q % 2 = 0 THEN 10 * q ELSE 10 * (q + 1)

\* variant: the threshold itself counts as active
IsActive_le(p) == p <= RegimeThreshold

IsActive(p) == p < RegimeThreshold

\* variant: the conservative default reports p = 0.0
DefaultRegime_zero == [active |-> FALSE, p |-> 0]

\* the outer except branch: return False, 1.00000
DefaultRegime == [active |-> FALSE, p |-> One]

\* variant: an empty score series is read as a latest score of 0.0
RegimeOf_emptyAsZero(pv) ==
  IF pv = <<>> THEN [active |-> IsActive(0), p |-> Round5(0)]
  ELSE [active |-> IsActive(pv[Len(pv)]), p |-> Round5(pv[Len(pv)])]

\* rolling_p.iloc[-1] raises IndexError on an empty series (outer except);
\* otherwise regime_active and round(latest_p, 5)
RegimeOf(pv) ==
  IF pv = <<>> THEN DefaultRegime
  ELSE [active |-> IsActive(pv[Len(pv)]), p |-> Round5(pv[Len(pv)])]

(* --------------------------- intraday and fallback --------------------- *)

NoTable == [k |-> "raise", cols |-> 0, rows |-> <<>>]

\* all sequences over S of length at most n
SeqsUpTo(S, n) == UNION {[1..m -> S] : m \in 0..n}

Bar(b, t) == [btc |-> b, tsla |-> t]

\* TSLA bars 14 and 16 basis points either side of 10000: the double
\* now/prev - 1 is a multiple of 2^-53 and the double 0.0015 is not, so the
\* fetch never yields a change equal to a threshold, and on these prices the
\* exact fraction and the double compare alike against it
IntraBars ==
  {Bar(Num(40000), Num(t)) : t \in {9984, 9986, 10000, 10014, 10016}}
  \cup {Bar(NaNCell, Num(10016)), Bar(Num(40001), NaNCell)}

\* outcomes of yf.download(..., period="5d", interval="5m")
IntradayOutcomes ==
  {NoTable}
  \cup {[k |-> "table", cols |-> 1, rows |-> <<>>]}
  \cup {[k |-> "table", cols |-> 2, rows |-> t] : t \in SeqsUpTo(IntraBars, MaxIntraRows)}

FbBars ==
  {Bar(Num(40501), Num(201)), Bar(Num(40502), NaNCell), Bar(NaNCell, NaNCell)}

\* outcomes of yf.download(..., period="2d")['Close']
FallbackOutcomes ==
  {NoTable}
  \cup {[k |-> "table", cols |-> 1, rows |-> <<>>]}
  \cup {[k |-> "table", cols |-> 2, rows |-> t] : t \in SeqsUpTo(FbBars, MaxFbRows)}

\* close.dropna()
DropNa(rows) == SelectSeq(rows, NotNaRow)

\* the try block of get_live_signal completes: two symbol columns and at
\* least 2 rows after dropna
IntradayOk(out) ==
  out.k = "table" /\ out.cols = 2 /\ Len(DropNa(out.rows)) >= 2

\* (tsla_now / tsla_prev) - 1 as the fraction (now - prev) / prev
ChangeOf(close) ==
  [n |-> close[Len(close)].tsla.v - close[Len(close) - 1].tsla.v,
   d |-> close[Len(close) - 1].tsla.v]

ZeroChange == [n |-> 0, d |-> 1]

\* the except block completes: both symbol columns and a last row exist
FallbackOk(out) == out.k = "table" /\ out.cols = 2 /\ out.rows # <<>>

\* variant: the upper comparison is not strict
AboveThreshold_ge(c) == c.n * ThrDen >= ThrNum * c.d

\* change > 0.0015 and change < -0.0015 on fractions with d > 0
AboveThreshold(c) == c.n * ThrDen > ThrNum * c.d

BelowThreshold(c) == c.n * ThrDen < (0 - ThrNum) * c.d

\* the signal logic: first match wins
SignalOf(active, c) ==
  IF ~active THEN [signal |-> "FLAT", color |-> "#888888", reason |-> "Regime inactive"]
  ELSE IF AboveThreshold(c)
    THEN [signal |-> "LONG BTC", color |-> "#00ff41", reason |-> "TSLA strongly up"]
  ELSE IF BelowThreshold(c)
    THEN [signal |-> "SHORT BTC", color |-> "#ff4444", reason |-> "TSLA strongly down"]
  ELSE [signal |-> "FLAT", color |-> "#888888", reason |-> "TSLA movement below threshold"]

RegimeLabel(active) == IF active THEN "ACTIVE" ELSE "INACTIVE"

NoSignal ==
  [signal |-> "", color |-> "", reason |-> "", regime |-> "", p_value |-> 0,
   tsla_change |-> ZeroChange, btc_price |-> NaNCell, tsla_price |-> NaNCell]

(* -------------------------------- state -------------------------------- *)

VARIABLES
  pc,        \* position in get_live_signal / _get_daily_regime
  daily,     \* _get_daily_regime: outcome of the daily fetch
  returns,   \* _get_daily_regime: the return series
  i,         \* _get_daily_regime: loop index (0-based)
  pvals,     \* _get_daily_regime: scores recorded so far
  dates,     \* _get_daily_regime: their dates
  calls,     \* the windows handed to grangercausalitytests and the outcomes
  regime,    \* value returned by _get_daily_regime
  intraday,  \* outcome of the 5-minute fetch
  fallback,  \* outcome of the 2-day fetch
  path,      \* "primary" or "fallback" once prices are set
  change,    \* tsla_change
  prices,    \* btc_price, tsla_price
  result     \* the dict returned by get_live_signal

vars == <<pc, daily, returns, i, pvals, dates, calls, regime, intraday,
          fallback, path, change, prices, result>>

locals == <<daily, returns, i, pvals, dates, calls>>

outer == <<intraday, fallback, path, change, prices, result>>

Init ==
  /\ pc = "start"
  /\ daily = NoTable
  /\ returns = <<>>
  /\ i = 0
  /\ pvals = <<>>
  /\ dates = <<>>
  /\ calls = <<>>
  /\ regime = DefaultRegime
  /\ intraday = NoTable
  /\ fallback = NoTable
  /\ path = ""
  /\ change = ZeroChange
  /\ prices = Bar(NaNCell, NaNCell)
  /\ result = NoSignal

(* ------------------------- _get_daily_regime --------------------------- *)

\* the download and the return computation; a raising download, or a table
\* with fewer than two columns (returns.columns = [...] raises), goes to
\* the outer except
FetchDaily ==
  /\ pc = "start"
  /\ \E out \in DailyOutcomes :
       /\ daily' = out
       /\ IF out.k = "table" /\ out.cols = 2
          THEN /\ returns' = Returns(out.rows)
               /\ i' = W
               /\ pc' = "scan"
               /\ UNCHANGED regime
          ELSE /\ regime' = DefaultRegime
               /\ pc' = "regime_ret"
               /\ UNCHANGED <<returns, i>>
  /\ UNCHANGED <<pvals, dates, calls, outer>>

\* one iteration of for i in range(90, len(returns))
ScanStep ==
  /\ pc = "scan"
  /\ i < Len(returns)
  /\ \E out \in GrangerOutcomes :
       /\ calls' = Append(calls, [win |-> Subset(i), out |-> out])
       /\ pvals' = Append(pvals, ScoreOf(out))
  /\ dates' = Append(dates, returns[i + 1].date)
  /\ i' = i + 1
  /\ UNCHANGED <<pc, daily, returns, regime, outer>>

\* the loop is exhausted: latest score, regime flag, rounded p-value
ScanEnd ==
  /\ pc = "scan"
  /\ i >= Len(returns)
  /\ regime' = RegimeOf(pvals)
  /\ pc' = "regime_ret"
  /\ UNCHANGED <<locals, outer>>

\* return to get_live_signal; the locals of _get_daily_regime are gone
RegimeReturn ==
  /\ pc = "regime_ret"
  /\ pc' = "intraday"
  /\ daily' = NoTable
  /\ returns' = <<>>
  /\ i' = 0
  /\ pvals' = <<>>
  /\ dates' = <<>>
  /\ calls' = <<>>
  /\ UNCHANGED <<regime, outer>>

(* ---------------------------- get_live_signal -------------------------- *)

\* the try block: 5-minute fetch, dropna, change and prices
FetchIntraday ==
  /\ pc = "intraday"
  /\ \E out \in IntradayOutcomes :
       /\ intraday' = out
       /\ IF IntradayOk(out)
          THEN LET close == DropNa(out.rows) IN
               /\ change' = ChangeOf(close)
               /\ prices' = Bar(close[Len(close)].btc, close[Len(close)].tsla)
               /\ path' = "primary"
               /\ pc' = "decide"
          ELSE /\ pc' = "fallback"
               /\ UNCHANGED <<change, prices, path>>
  /\ UNCHANGED <<locals, regime, fallback, result>>

\* the except block: 2-day fetch, last row, change 0.0; nothing catches
\* what this block raises
FetchFallback ==
  /\ pc = "fallback"
  /\ \E out \in FallbackOutcomes :
       /\ fallback' = out
       /\ IF FallbackOk(out)
          THEN /\ prices' = Bar(out.rows[Len(out.rows)].btc, out.rows[Len(out.rows)].tsla)
               /\ change' = ZeroChange
               /\ path' = "fallback"
               /\ pc' = "decide"
          ELSE /\ pc' = "raised"
               /\ UNCHANGED <<change, prices, path>>
  /\ UNCHANGED <<locals, regime, intraday, result>>

\* signal logic and the returned dict
Decide ==
  /\ pc = "decide"
  /\ result' = [signal      |-> SignalOf(regime.active, change).signal,
                color       |-> SignalOf(regime.active, change).color,
                reason      |-> SignalOf(regime.active, change).reason,
                regime      |-> RegimeLabel(regime.active),
                p_value     |-> regime.p,
                tsla_change |-> change,
                btc_price   |-> prices.btc,
                tsla_price  |-> prices.tsla]
  /\ pc' = "done"
  /\ UNCHANGED <<locals, regime, intraday, fallback, path, change, prices>>

\* the next page view: index() calls get_live_signal afresh
NewRequest ==
  /\ pc \in {"done", "raised"}
  /\ pc' = "start"
  /\ regime' = DefaultRegime
  /\ intraday' = NoTable
  /\ fallback' = NoTable
  /\ path' = ""
  /\ change' = ZeroChange
  /\ prices' = Bar(NaNCell, NaNCell)
  /\ result' = NoSignal
  /\ UNCHANGED locals

Next ==
  \/ FetchDaily
  \/ ScanStep
  \/ ScanEnd
  \/ RegimeReturn
  \/ FetchIntraday
  \/ FetchFallback
  \/ Decide
  \/ NewRequest

Spec == Init /\ [][Next]_vars

TypeOK ==
  /\ pc \in {"start", "scan", "regime_ret", "intraday", "fallback", "decide", "done", "raised"}
  /\ regime.p \in 0..One
  /\ Len(pvals) = Len(dates)

(* ------------- the signal logic as a function of its inputs ------------ *)

\* values of tsla_change around both thresholds, the thresholds included
ChangeGrid == {[n |-> x, d |-> ThrDen] : x \in (0 - 20) .. 20}

RegimeGrid == {DefaultRegime} \cup {RegimeOf(<<p>>) : p \in PGrid}

\* get_live_signal at the signal logic, for every regime and change
InitDecide ==
  /\ pc = "decide"
  /\ daily = NoTable
  /\ returns = <<>>
  /\ i = 0
  /\ pvals = <<>>
  /\ dates = <<>>
  /\ calls = <<>>
  /\ regime \in RegimeGrid
  /\ intraday = NoTable
  /\ fallback = NoTable
  /\ path = "primary"
  /\ change \in ChangeGrid
  /\ prices = Bar(Num(40000), Num(10000))
  /\ result = NoSignal

NextDecide == Decide

SpecDecide == InitDecide /\ [][NextDecide]_vars

(* -------------------------------- claims ------------------------------- *)

\* C1: get_live_signal never fails towards its caller: whatever the three
\* fetches do, the call ends by returning a Signal, never by raising.
C1_NeverRaises ==
  pc # "raised"

\* C2: on the fallback path the returned Signal is FLAT, its change is 0,
\* and each price is the most recent observed (non-missing) daily close of
\* that asset in the fallback table (stated for tables that hold at least
\* one observed close of each asset).
C2_FallbackFlatWithObservedCloses ==
  (pc = "done" /\ path = "fallback"
     /\ (\E r \in 1..Len(fallback.rows) : fallback.rows[r].btc.k = "num")
     /\ (\E r \in 1..Len(fallback.rows) : fallback.rows[r].tsla.k = "num")) =>
    /\ result.signal = "FLAT"
    /\ result.tsla_change.n = 0
    /\ \E r \in 1..Len(fallback.rows) :
         /\ fallback.rows[r].btc.k = "num"
         /\ \A q \in (r + 1)..Len(fallback.rows) : fallback.rows[q].btc.k = "nan"
         /\ result.btc_price = fallback.rows[r].btc
    /\ \E r \in 1..Len(fallback.rows) :
         /\ fallback.rows[r].tsla.k = "num"
         /\ \A q \in (r + 1)..Len(fallback.rows) : fallback.rows[q].tsla.k = "nan"
         /\ result.tsla_price = fallback.rows[r].tsla

\* C3: the signal is the decision table of (regime active, change), first
\* match wins: inactive gives FLAT "Regime inactive"; active and change >
\* 0.0015 gives LONG; active and change < -0.0015 gives SHORT; active
\* otherwise, both thresholds included, gives FLAT "below threshold"; so
\* LONG or SHORT implies the label ACTIVE.
C3_DecisionTable ==
  pc = "done" =>
    LET c  == result.tsla_change
        up == c.n * 10000 > 15 * c.d
        dn == c.n * 10000 < (0 - 15) * c.d
    IN  /\ result.regime = (IF regime.active THEN "ACTIVE" ELSE "INACTIVE")
        /\ ~regime.active =>
             result.signal = "FLAT" /\ result.reason = "Regime inactive"
        /\ (regime.active /\ up) =>
             result.signal = "LONG BTC" /\ result.reason = "TSLA strongly up"
        /\ (regime.active /\ dn) =>
             result.signal = "SHORT BTC" /\ result.reason = "TSLA strongly down"
        /\ (regime.active /\ ~up /\ ~dn) =>
             /\ result.signal = "FLAT"
             /\ result.reason = "TSLA movement below threshold"
        /\ result.signal \in {"LONG BTC", "SHORT BTC"} => result.regime = "ACTIVE"

\* C3 witness: regime active and a change exactly on the upper threshold,
\* answered FLAT
C3_Witness ==
  /\ pc = "done"
  /\ result.regime = "ACTIVE"
  /\ result.tsla_change.n * 10000 = 15 * result.tsla_change.d
  /\ result.signal = "FLAT"

\* C4: whenever the regime cannot be computed (the daily fetch raises, it
\* has fewer than two symbol columns, or the return series has 90 or fewer
\* rows), _get_daily_regime returns exactly (False, 1.0).
C4_NoRegimeIsInactiveOne ==
  (pc = "regime_ret"
     /\ (daily.k = "raise" \/ daily.cols < 2 \/ Len(returns) <= 90)) =>
    (regime.active = FALSE /\ regime.p = 1000000)

\* C4 witness: a two-column table whose return series has exactly 90 rows
C4_Witness ==
  /\ pc = "regime_ret"
  /\ daily.k = "table"
  /\ daily.cols = 2
  /\ Len(returns) = 90

\* C5: the regime is active iff the latest rolling score, the one dated by
\* the last index of the return series, is strictly less than 0.10.
C5_ActiveIffLatestBelowThreshold ==
  (pc = "regime_ret" /\ pvals # <<>>) =>
    /\ dates[Len(dates)] = returns[Len(returns)].date
    /\ regime.active <=> (pvals[Len(pvals)] < 100000)

\* C5 witness: the latest score is exactly 0.10 and the regime is inactive
C5_Witness ==
  /\ pc = "regime_ret"
  /\ pvals # <<>>
  /\ pvals[Len(pvals)] = 100000
  /\ ~regime.active

\* C6: a return series of length n >= W+1 yields exactly n - W scores, the
\* j-th for index i = W+j-1 and dated by the timestamp at index i, dates
\* strictly increasing, each score in [0,1], each computed from exactly the
\* observations [i-W, i).
C6_ScanShape ==
  (pc = "regime_ret" /\ daily.cols = 2 /\ Len(returns) >= 90 + 1) =>
    /\ Len(pvals) = Len(returns) - 90
    /\ Len(dates) = Len(pvals)
    /\ Len(calls) = Len(pvals)
    /\ \A j \in 1..Len(pvals) :
         /\ dates[j] = returns[90 + j].date
         /\ pvals[j] >= 0 /\ pvals[j] <= 1000000
         /\ calls[j].win.lo = j - 1
         /\ calls[j].win.hi = 90 + j - 1
         /\ calls[j].win.hi - calls[j].win.lo = 90
    /\ \A j \in 1..(Len(dates) - 1) : dates[j] < dates[j + 1]

\* C6 witness: a finished scan with at least two scores
C6_Witness ==
  /\ pc = "regime_ret"
  /\ Len(returns) >= 90 + 2
  /\ Len(pvals) >= 2

\* C7: a window whose test raises gets the score 1.0 at its own date and
\* the scan goes on: every other window keeps the score its test returned,
\* and the number and the dates of the scores are as without the failure.
C7_FailingWindowIsLocal ==
  (pc = "regime_ret" /\ daily.cols = 2) =>
    /\ Len(calls) = (IF Len(returns) > 90 THEN Len(returns) - 90 ELSE 0)
    /\ Len(pvals) = Len(calls)
    /\ Len(dates) = Len(calls)
    /\ \A j \in 1..Len(calls) :
         /\ dates[j] = returns[90 + j].date
         /\ calls[j].out = Raised => pvals[j] = 1000000
         /\ calls[j].out # Raised => pvals[j] = calls[j].out

\* C7 witness: a window failed between two windows that did not
C7_Witness ==
  /\ pc = "regime_ret"
  /\ \E j \in 2..(Len(calls) - 1) :
       /\ calls[j].out = Raised
       /\ calls[j - 1].out \in {0, 99996}
       /\ calls[j + 1].out \in {0, 99996}
       /\ pvals[j + 1] = calls[j + 1].out

\* C8: a price <= 0 in the daily table makes the return computation fail,
\* so the classifier answers (False, 1.0); the row is never dropped or
\* coerced with the scan going on over the other rows to another answer.
C8_NonPositivePriceIsFatal ==
  (pc = "regime_ret" /\ daily.cols = 2 /\ HasNonPositive(daily.rows)) =>
    regime = [active |-> FALSE, p |-> 1000000]

\* C9: rows with a missing price are dropped before the returns are taken,
\* so a table with k rows having both prices (all prices positive) gives a
\* return series of exactly k - 1 entries.
C9_ReturnCountIsAlignedMinusOne ==
  (pc \in {"scan", "regime_ret"} /\ daily.cols = 2
     /\ ~HasNonPositive(daily.rows) /\ AlignedCount(daily.rows) >= 1) =>
    Len(returns) = AlignedCount(daily.rows) - 1

\* C10 as stated: the regime is ACTIVE iff the reported (rounded) p_value
\* is strictly less than 0.10.
C10_LabelIffReportedBelow ==
  /\ pc = "regime_ret" => (regime.active <=> regime.p < 100000)
  /\ pc = "done" => (result.regime = "ACTIVE" <=> result.p_value < 100000)

\* C10 amended: the flag is taken from the score before rounding, so a
\* reported p_value below 0.10 implies ACTIVE, and ACTIVE implies a
\* reported p_value of at most 0.10.
C10_LabelBoundsReported ==
  /\ pc = "regime_ret" =>
       /\ regime.p < 100000 => regime.active
       /\ regime.active => regime.p <= 100000
  /\ pc = "done" =>
       /\ result.p_value < 100000 => result.regime = "ACTIVE"
       /\ result.regime = "ACTIVE" => result.p_value <= 100000
       /\ result.regime = "INACTIVE" => result.p_value >= 100000

\* C10 witness: an ACTIVE signal whose reported p_value is 0.10
C10_Witness ==
  /\ pc = "done"
  /\ result.regime = "ACTIVE"
  /\ result.p_value = 100000

====
